---- MODULE Spec2Model ----
(***************************************************************************)
(* Model of the imgproxy URL builder (src/src/param-builder.ts).           *)
(*                                                                         *)
(* A JavaScript string is modelled as a sequence of one-character strings, *)
(* so that join, concatenation, base64url encoding and prefix inspection   *)
(* are computed character by character.  A JavaScript array is a sequence  *)
(* held in a heap (modifiers) and referred to by an array identity, so     *)
(* that two ParamBuilder objects may refer to one array.  An optional      *)
(* value is a sequence of length at most one: <<>> is undefined, <<v>> is  *)
(* the value v.                                                            *)
(*                                                                         *)
(* A handle is what a client holds of a chain: the ParamBuilder object and *)
(* the static type TypeScript gives the expression, represented by the set *)
(* of keys that Omit<> has removed from ParamBuilder.                      *)
(***************************************************************************)
EXTENDS Integers, Sequences, FiniteSets, TLC

VARIABLES modifiers, ref, origin, handles, calls, last

vars == <<modifiers, ref, origin, handles, calls, last>>

-----------------------------------------------------------------------------
(* Bounds of the model *)

\* ParamBuilder objects a behaviour constructs (pb, new ParamBuilder, clone)
MaxChains == 2

\* chain-method calls a behaviour makes, over all chains
MaxCalls == 2

-----------------------------------------------------------------------------
(* Strings *)

None == <<>>

Some(x) == <<x>>

\* The printable ASCII characters, code 32 to 126, in code order (code 96, the
\* grave accent, cannot be written in a string and is held by a word)
Ascii ==
    << " ", "!", "\"", "#", "$", "%", "&", "'", "(", ")", "*", "+", ",", "-", ".", "/",
       "0", "1", "2", "3", "4", "5", "6", "7", "8", "9", ":", ";", "<", "=", ">", "?",
       "@", "A", "B", "C", "D", "E", "F", "G", "H", "I", "J", "K", "L", "M", "N", "O",
       "P", "Q", "R", "S", "T", "U", "V", "W", "X", "Y", "Z", "[", "\\", "]", "^", "_",
       "grave", "a", "b", "c", "d", "e", "f", "g", "h", "i", "j", "k", "l", "m", "n", "o",
       "p", "q", "r", "s", "t", "u", "v", "w", "x", "y", "z", "{", "|", "}", "~" >>

\* The code unit of a character
Ord == [c \in {Ascii[i] : i \in 1..Len(Ascii)} |->
            31 + (CHOOSE i \in 1..Len(Ascii) : Ascii[i] = c)]

\* The base64url alphabet (RFC 4648, section 5), value 0 to 63
Base64Url ==
    << "A", "B", "C", "D", "E", "F", "G", "H", "I", "J", "K", "L", "M", "N", "O", "P",
       "Q", "R", "S", "T", "U", "V", "W", "X", "Y", "Z", "a", "b", "c", "d", "e", "f",
       "g", "h", "i", "j", "k", "l", "m", "n", "o", "p", "q", "r", "s", "t", "u", "v",
       "w", "x", "y", "z", "0", "1", "2", "3", "4", "5", "6", "7", "8", "9", "-", "_" >>

Digits == << "0", "1", "2", "3", "4", "5", "6", "7", "8", "9" >>

RECURSIVE decimal(_)
\* Number.prototype.toString of a natural number
decimal(n) ==
    IF n < 10 THEN << Digits[n + 1] >>
    ELSE decimal(n \div 10) \o << Digits[(n % 10) + 1] >>

RECURSIVE join(_, _)
\* Array.prototype.join: the elements separated by sep, "" for the empty array
join(arr, sep) ==
    IF Len(arr) = 0 THEN << >>
    ELSE IF Len(arr) = 1 THEN arr[1]
    ELSE arr[1] \o sep \o join(Tail(arr), sep)

\* arrayPush as unshift would have it: x added at the front
arrayPush_unshift(arr, x) == << x >> \o arr

\* Array.prototype.push: the array with x added at its end
arrayPush(arr, x) == Append(arr, x)

\* A new empty array in place of the copy
spread_empty(arr) == << >>

\* [...arr]: a new array holding the elements of arr in order
spread(arr) == [i \in 1..Len(arr) |-> arr[i]]

\* truthy with the empty string taken for a value
truthy_defined(opt) == opt # None

\* JavaScript truthiness of an optional string: undefined and "" are falsy
truthy(opt) == opt # None /\ opt[1] # << >>

\* JavaScript truthiness of an optional boolean
isTrue(opt) == opt # None /\ opt[1] = TRUE

-----------------------------------------------------------------------------
(* utils: stringifyOptions, encodeFilePath, generateSignature *)

Null == [t |-> "null", v |-> << >>]

Num(n) == [t |-> "number", v |-> decimal(n)]

Str(s) == [t |-> "string", v |-> s]

Bool(b) == [t |-> "boolean", v |-> IF b THEN << "1" >> ELSE << "0" >>]

RECURSIVE dropTrailingNull(_)
dropTrailingNull(values) ==
    IF Len(values) > 0 /\ values[Len(values)] = Null
    THEN dropTrailingNull(SubSeq(values, 1, Len(values) - 1))
    ELSE values

RECURSIVE renderValues(_)
renderValues(values) ==
    IF Len(values) = 0 THEN << >>
    ELSE << ":" >> \o values[1].v \o renderValues(Tail(values))

\* prefix, then ":" and the text of each value; a trailing run of nulls is dropped
stringifyOptions(prefix, values) == prefix \o renderValues(dropTrailingNull(values))

RECURSIVE base64url(_)
\* base64url without padding of a sequence of bytes
base64url(bytes) ==
    IF Len(bytes) = 0 THEN << >>
    ELSE IF Len(bytes) = 1 THEN
        << Base64Url[(bytes[1] \div 4) + 1],
           Base64Url[((bytes[1] % 4) * 16) + 1] >>
    ELSE IF Len(bytes) = 2 THEN
        << Base64Url[(bytes[1] \div 4) + 1],
           Base64Url[((bytes[1] % 4) * 16) + (bytes[2] \div 16) + 1],
           Base64Url[((bytes[2] % 16) * 4) + 1] >>
    ELSE
        << Base64Url[(bytes[1] \div 4) + 1],
           Base64Url[((bytes[1] % 4) * 16) + (bytes[2] \div 16) + 1],
           Base64Url[((bytes[2] % 16) * 4) + (bytes[3] \div 64) + 1],
           Base64Url[(bytes[3] % 64) + 1] >>
        \o base64url(SubSeq(bytes, 4, Len(bytes)))

\* The bytes of an ASCII string
bytesOf(s) == [i \in 1..Len(s) |-> Ord[s[i]]]

\* encodeFilePath: the raw path as one base64url segment, no padding
encodeFilePath(path) == base64url(bytesOf(path))

RECURSIVE digest(_, _)
\* A 12-bit keyed checksum standing for the HMAC digest
digest(h, s) ==
    IF Len(s) = 0 THEN h
    ELSE digest(((h * 33) + Ord[Head(s)]) % 4096, Tail(s))

\* generateSignature: a keyed digest over salt || message, as base64url
generateSignature(message, key, salt) ==
    LET h == digest(digest(5381, key), salt \o message)
    IN  << Base64Url[(h \div 64) + 1], Base64Url[(h % 64) + 1] >>

-----------------------------------------------------------------------------
(* transformers: one token encoder for each modifier kind *)

autoRotateToken == stringifyOptions(<< "a", "r" >>, << >>)

backgroundToken(options) == stringifyOptions(<< "b", "g" >>, << Str(options) >>)

blurToken(options) == stringifyOptions(<< "b", "l", "u", "r" >>, << Num(options) >>)

cacheBusterToken(options) == stringifyOptions(<< "c", "b" >>, << Str(options) >>)

cropToken(options) ==
    stringifyOptions(<< "c" >>, << Num(options.width), Num(options.height), Null >>)

dprToken(options) == stringifyOptions(<< "d", "p", "r" >>, << Num(options) >>)

fileNameToken(options) == stringifyOptions(<< "f", "n" >>, << Str(options) >>)

formatToken(options) == stringifyOptions(<< "f" >>, << Str(options) >>)

gravityToken(options) == stringifyOptions(<< "g" >>, << Str(options.type), Null, Null >>)

maxBytesToken(options) == stringifyOptions(<< "m", "b" >>, << Num(options) >>)

padToken(options) ==
    stringifyOptions(<< "p", "d" >>, << Num(options.top), Null, Null, Null >>)

presetToken(options) == stringifyOptions(<< "p", "r" >>, << Str(join(options, << "," >>)) >>)

qualityToken(options) == stringifyOptions(<< "q" >>, << Num(options) >>)

resizeToken(options) ==
    stringifyOptions(<< "r", "s" >>,
        << Str(options.type), Num(options.width), Num(options.height), Null, Null >>)

\* rotate with the prefix written out in full
rotateToken_long(angle) ==
    stringifyOptions(<< "r", "o", "t", "a", "t", "e" >>, << Num(angle) >>)

rotateToken(angle) == stringifyOptions(<< "r", "o", "t" >>, << Num(angle) >>)

sharpenToken(options) == stringifyOptions(<< "s", "h" >>, << Num(options) >>)

stripColorProfileToken == stringifyOptions(<< "s", "c", "p" >>, << >>)

stripMetadataToken == stringifyOptions(<< "s", "m" >>, << >>)

trimToken(options) ==
    stringifyOptions(<< "t" >>, << Num(options.threshold), Null, Null, Null >>)

watermarkToken(options) ==
    stringifyOptions(<< "w", "m" >>, << Num(options.opacity), Null, Null, Null, Null >>)

-----------------------------------------------------------------------------
(* The option values the clients of the model pass *)

BackgroundOptions == { << "f", "f", "f" >> }

BlurOptions == { 5 }

CacheBusterOptions == { << "v", "1" >> }

CropOptions == { [width |-> 10, height |-> 20] }

DprOptions == { 2 }

FileNameOptions == { << "x" >> }

FormatOptions == { << "p", "n", "g" >> }

GravityOptions == { [type |-> << "n", "o" >>] }

MaxBytesOptions == { 100 }

PaddingOptions == { [top |-> 1] }

PresetOptions == { << << "a" >>, << "b" >> >> }

QualityOptions == { 80 }

ResizeOptions == { [type |-> << "f", "i", "t" >>, width |-> 300, height |-> 200] }

RotationOptions == { 90, 180, 270 }

SharpenOptions == { 1 }

TrimOptions == { [threshold |-> 10] }

WatermarkOptions == { [opacity |-> 1] }

\* path of build's options: undefined, "" or "/a.js"
Paths == { None, Some(<< >>), Some(<< "/", "a", ".", "j", "s" >>) }

\* baseUrl of build's options: undefined, "" or "http://h"
BaseUrls == { None, Some(<< >>), Some(<< "h", "t", "t", "p", ":", "/", "/", "h" >>) }

\* plain of build's options
Plains == { None, Some(TRUE), Some(FALSE) }

\* signature of build's options: undefined or a {key, salt} pair
Signatures ==
    { None,
      Some([key |-> << "k" >>, salt |-> << "s" >>]),
      Some([key |-> << "j" >>, salt |-> << "s" >>]),
      Some([key |-> << "k" >>, salt |-> << "t" >>]) }

\* build's argument: undefined or an options object, every combination
BuildOptions ==
    { None } \cup
    { Some([path |-> p, baseUrl |-> b, plain |-> pl, signature |-> s]) :
        p \in Paths, b \in BaseUrls, pl \in Plains, s \in Signatures }

\* build's argument when a client builds a chain and its clones: undefined, or the
\* path "/a.js" with or without baseUrl, plain and signature
PathOptions ==
    { None } \cup
    { Some([path |-> Some(<< "/", "a", ".", "j", "s" >>), baseUrl |-> b,
            plain |-> pl, signature |-> s]) :
        b \in { None, Some(<< "h", "t", "t", "p", ":", "/", "/", "h" >>) },
        pl \in Plains,
        s \in { None, Some([key |-> << "k" >>, salt |-> << "s" >>]) } }

\* build's argument when a client builds the bare chain: build()
BareOptions == { None }

-----------------------------------------------------------------------------
(* ParamBuilder *)

\* The chain methods of class ParamBuilder, one for each modifier kind
Methods ==
    { "autoRotate", "background", "blur", "cacheBuster", "crop", "dpr", "filename",
      "format", "gravity", "maxBytes", "pad", "preset", "quality", "resize", "rotate",
      "sharpen", "stripColorProfile", "stripMetadata", "trim", "watermark" }

Chains == 1..MaxChains

\* Array identities: 0 is the array a client passes to the constructor as
\* initialModifiers, c is the array created for chain c by pb() or clone()
Arrays == 0..MaxChains

\* The type ParamBuilder: no key omitted
ParamBuilderType == { }

\* Omit<T, K>: the type T without the key K
Omit(T, K) == T \cup { K }

\* The chain methods a handle's type exposes
Exposed(T) == Methods \ T

\* Whether a handle's static type has the method, so that the call compiles
Exposes(h, method) == method \in Exposed(h.type)

Handle(c, T) == [chain |-> c, type |-> T]

Allocated == { c \in Chains : origin[c].how # "none" }

\* The chain-method calls made so far, over all the chains
TotalCalls == Len(join([c \in Chains |-> calls[c]], << >>))

\* The record of the last call: its method, the chain and the static type of the
\* receiver, the static type of the value returned, and for build its argument,
\* the string returned and the arguments generateSignature was called with
Call(op, c, recv, ret, options, out, signed) ==
    [op |-> op, chain |-> c, recv |-> recv, ret |-> ret,
     options |-> options, out |-> out, signed |-> signed]

Init ==
    /\ modifiers = [a \in Arrays |-> << >>]
    /\ ref = [c \in Chains |-> c]
    /\ origin = [c \in Chains |-> [how |-> "none", of |-> 0]]
    /\ handles = { }
    /\ calls = [c \in Chains |-> << >>]
    /\ last = Call("init", 0, { }, { }, None, << >>, None)

\* new ParamBuilder(initialModifiers) on object c: this.modifiers is the array passed
constructor(c, initialModifiers, how, of, recv, T) ==
    /\ ref' = [ref EXCEPT ![c] = initialModifiers]
    /\ origin' = [origin EXCEPT ![c] = [how |-> how, of |-> of]]
    /\ handles' = handles \cup { Handle(c, T) }
    /\ last' = Call(how, c, recv, T, None, << >>, None)
    /\ UNCHANGED calls

\* new ParamBuilder(initialModifiers), the exported class called by a client
ParamBuilder(initialModifiers) ==
    /\ Allocated # Chains
    /\ LET c == CHOOSE x \in Chains \ Allocated : \A y \in Chains \ Allocated : x <= y
       IN  /\ constructor(c, initialModifiers, "new", 0, { }, ParamBuilderType)
           /\ UNCHANGED modifiers

\* pb(): new ParamBuilder() with the default parameter, a new empty array
pb ==
    /\ Allocated # Chains
    /\ LET c == CHOOSE x \in Chains \ Allocated : \A y \in Chains \ Allocated : x <= y
       IN  /\ modifiers' = [modifiers EXCEPT ![c] = << >>]
           /\ constructor(c, c, "pb", 0, { }, ParamBuilderType)

\* clone declared to return the class itself
cloneType_wide(T) == ParamBuilderType

\* clone<T extends ForwardType>(this: T): T: the type of the handle clone returns
cloneType(T) == T

\* cloneModifiers without the spread: the receiver's own array
cloneModifiers_shared(this, fresh) == this

\* The array the clone's constructor receives: the new one made by the spread
cloneModifiers(this, fresh) == fresh

\* clone(): new ParamBuilder([...this.modifiers]), typed as the receiver
clone(h) ==
    /\ h \in handles
    /\ Allocated # Chains
    /\ LET c == CHOOSE x \in Chains \ Allocated : \A y \in Chains \ Allocated : x <= y
       IN  /\ modifiers' = [modifiers EXCEPT ![c] = spread(modifiers[ref[h.chain]])]
           /\ constructor(c, cloneModifiers(ref[h.chain], c), "clone", h.chain, h.type,
                          cloneType(h.type))

\* pushFileSegment without the copy: the file segment pushed on this.modifiers
pushFileSegment_onThis(this, path, plain) ==
    LET mods == IF truthy(Some(path)) /\ isTrue(plain)
                THEN arrayPush(arrayPush(this, << "p", "l", "a", "i", "n" >>), path)
                ELSE arrayPush(this, encodeFilePath(path))
    IN  [this |-> mods, mods |-> mods]

\* pushFileSegment with the else lost: the encoded path pushed in plain mode too
pushFileSegment_both(this, path, plain) ==
    LET m == IF truthy(Some(path)) /\ isTrue(plain)
             THEN arrayPush(arrayPush(spread(this), << "p", "l", "a", "i", "n" >>), path)
             ELSE spread(this)
    IN  [this |-> this, mods |-> arrayPush(m, encodeFilePath(path))]

\* pushFileSegment on an array holding the joined tokens as its one element
pushFileSegment_afterJoined(this, path, plain) ==
    [this |-> this,
     mods |-> IF truthy(Some(path)) /\ isTrue(plain)
              THEN arrayPush(arrayPush(<< join(this, << "/" >>) >>,
                                       << "p", "l", "a", "i", "n" >>), path)
              ELSE arrayPush(<< join(this, << "/" >>) >>, encodeFilePath(path))]

\* const mods = [...this.modifiers]; then the file segment is pushed on mods:
\* "plain" and the raw path, or the encoded path.  The two arrays after that.
pushFileSegment(this, path, plain) ==
    [this |-> this,
     mods |-> IF truthy(Some(path)) /\ isTrue(plain)
              THEN arrayPush(arrayPush(spread(this), << "p", "l", "a", "i", "n" >>), path)
              ELSE arrayPush(spread(this), encodeFilePath(path))]

\* finalPath signing the path with its leading "/"
finalPath_signsSlash(res, signature) ==
    IF signature # None
    THEN [path |-> generateSignature(<< "/" >> \o res, signature[1].key, signature[1].salt)
                       \o << "/" >> \o res,
          signed |-> Some([message |-> << "/" >> \o res, key |-> signature[1].key,
                           salt |-> signature[1].salt])]
    ELSE [path |-> res, signed |-> None]

\* finalPath with the salt written as a path component after the signature
finalPath_saltInPath(res, signature) ==
    IF signature # None
    THEN [path |-> generateSignature(res, signature[1].key, signature[1].salt)
                       \o << "/" >> \o signature[1].salt \o << "/" >> \o res,
          signed |-> Some([message |-> res, key |-> signature[1].key,
                           salt |-> signature[1].salt])]
    ELSE [path |-> res, signed |-> None]

\* finalPath: the signature and "/" before res when a signature is asked for;
\* signed holds the arguments generateSignature is called with
finalPath(res, signature) ==
    IF signature # None
    THEN [path |-> generateSignature(res, signature[1].key, signature[1].salt)
                       \o << "/" >> \o res,
          signed |-> Some([message |-> res, key |-> signature[1].key,
                           salt |-> signature[1].salt])]
    ELSE [path |-> res, signed |-> None]

\* withBaseUrl with the leading "/" kept before a baseUrl
withBaseUrl_leadingSlash(baseUrl, path) ==
    IF truthy(baseUrl)
    THEN << "/" >> \o baseUrl[1] \o << "/" >> \o path
    ELSE << "/" >> \o path

\* The returned string: baseUrl and "/", or "/" alone, before finalPath
withBaseUrl(baseUrl, path) ==
    IF truthy(baseUrl) THEN baseUrl[1] \o << "/" >> \o path ELSE << "/" >> \o path

\* const { baseUrl, path, plain, signature } = options ?? {}
destructure(options) ==
    IF options = None
    THEN [path |-> None, baseUrl |-> None, plain |-> None, signature |-> None]
    ELSE options[1]

\* build(options) on a chain whose this.modifiers holds this: the string returned,
\* this.modifiers after the call, and the arguments of the generateSignature call
buildCall(this, options) ==
    LET o == destructure(options)
    IN  IF ~truthy(o.path)
        THEN [ret |-> join(this, << "/" >>), this |-> this, signed |-> None]
        ELSE LET m == pushFileSegment(this, o.path[1], o.plain)
                 res == join(m.mods, << "/" >>)
                 final == finalPath(res, o.signature)
             IN  [ret |-> withBaseUrl(o.baseUrl, final.path),
                  this |-> m.this,
                  signed |-> final.signed]

\* build(options) called through handle h
build(h, options) ==
    /\ h \in handles
    /\ LET r == buildCall(modifiers[ref[h.chain]], options)
       IN  /\ modifiers' = [modifiers EXCEPT ![ref[h.chain]] = r.this]
           /\ last' = Call("build", h.chain, { }, { }, options, r.ret, r.signed)
    /\ UNCHANGED <<ref, origin, handles, calls>>

\* A chain method that returns a new chain holding the receiver's tokens and the
\* new one, and leaves the receiver's array as it was
chainMethod_fresh(h, method, token, key) ==
    /\ h \in handles
    /\ Exposes(h, method)
    /\ TotalCalls < MaxCalls
    /\ Allocated # Chains
    /\ LET c == CHOOSE x \in Chains \ Allocated : \A y \in Chains \ Allocated : x <= y
       IN  /\ modifiers' = [modifiers EXCEPT ![c] = arrayPush(modifiers[ref[h.chain]], token)]
           /\ ref' = [ref EXCEPT ![c] = c]
           /\ origin' = [origin EXCEPT ![c] = [how |-> method, of |-> h.chain]]
           /\ handles' = handles \cup { Handle(c, Omit(h.type, key)) }
           /\ calls' = [calls EXCEPT ![h.chain] = Append(@, token)]
           /\ last' = Call(method, c, h.type, Omit(h.type, key), None, << >>, None)

\* A chain method called through handle h: this.modifiers.push(token); return this,
\* typed Omit<T, key>
chainMethod(h, method, token, key) ==
    /\ h \in handles
    /\ Exposes(h, method)
    /\ TotalCalls < MaxCalls
    /\ modifiers' = [modifiers EXCEPT ![ref[h.chain]] = arrayPush(@, token)]
    /\ handles' = handles \cup { Handle(h.chain, Omit(h.type, key)) }
    /\ calls' = [calls EXCEPT ![h.chain] = Append(@, token)]
    /\ last' = Call(method, h.chain, h.type, Omit(h.type, key), None, << >>, None)
    /\ UNCHANGED <<ref, origin>>

autoRotate(h) == chainMethod(h, "autoRotate", autoRotateToken, "autoRotate")

background(h, options) ==
    chainMethod(h, "background", backgroundToken(options), "background")

blur(h, options) == chainMethod(h, "blur", blurToken(options), "blur")

cacheBuster(h, options) ==
    chainMethod(h, "cacheBuster", cacheBusterToken(options), "cacheBuster")

crop(h, options) == chainMethod(h, "crop", cropToken(options), "crop")

dpr(h, options) == chainMethod(h, "dpr", dprToken(options), "dpr")

filename(h, options) == chainMethod(h, "filename", fileNameToken(options), "dpr")

format(h, options) == chainMethod(h, "format", formatToken(options), "format")

gravity(h, options) == chainMethod(h, "gravity", gravityToken(options), "gravity")

maxBytes(h, options) == chainMethod(h, "maxBytes", maxBytesToken(options), "maxBytes")

pad(h, options) == chainMethod(h, "pad", padToken(options), "pad")

preset(h, options) == chainMethod(h, "preset", presetToken(options), "preset")

quality(h, options) == chainMethod(h, "quality", qualityToken(options), "quality")

resize(h, options) == chainMethod(h, "resize", resizeToken(options), "resize")

rotate(h, options) == chainMethod(h, "rotate", rotateToken(options), "rotate")

sharpen(h, options) == chainMethod(h, "sharpen", sharpenToken(options), "sharpen")

stripColorProfile(h) ==
    chainMethod(h, "stripColorProfile", stripColorProfileToken, "stripColorProfile")

stripMetadata(h) == chainMethod(h, "stripMetadata", stripMetadataToken, "stripMetadata")

trim(h, options) == chainMethod(h, "trim", trimToken(options), "trim")

watermark(h, options) == chainMethod(h, "watermark", watermarkToken(options), "watermark")

Next ==
    \/ pb
    \/ ParamBuilder(0)
    \/ \E h \in handles : clone(h)
    \/ \E h \in handles, options \in BareOptions : build(h, options)
    \/ \E h \in handles : autoRotate(h)
    \/ \E h \in handles, options \in BackgroundOptions : background(h, options)
    \/ \E h \in handles, options \in BlurOptions : blur(h, options)
    \/ \E h \in handles, options \in CacheBusterOptions : cacheBuster(h, options)
    \/ \E h \in handles, options \in CropOptions : crop(h, options)
    \/ \E h \in handles, options \in DprOptions : dpr(h, options)
    \/ \E h \in handles, options \in FileNameOptions : filename(h, options)
    \/ \E h \in handles, options \in FormatOptions : format(h, options)
    \/ \E h \in handles, options \in GravityOptions : gravity(h, options)
    \/ \E h \in handles, options \in MaxBytesOptions : maxBytes(h, options)
    \/ \E h \in handles, options \in PaddingOptions : pad(h, options)
    \/ \E h \in handles, options \in PresetOptions : preset(h, options)
    \/ \E h \in handles, options \in QualityOptions : quality(h, options)
    \/ \E h \in handles, options \in ResizeOptions : resize(h, options)
    \/ \E h \in handles, options \in RotationOptions : rotate(h, options)
    \/ \E h \in handles, options \in SharpenOptions : sharpen(h, options)
    \/ \E h \in handles : stripColorProfile(h)
    \/ \E h \in handles : stripMetadata(h)
    \/ \E h \in handles, options \in TrimOptions : trim(h, options)
    \/ \E h \in handles, options \in WatermarkOptions : watermark(h, options)

\* Clients of the whole exported interface; they build the bare chain
Spec == Init /\ [][Next]_vars

\* The handles a fluent client holds: of each chain, the one returned last, whose
\* type omits what every earlier one omits
Latest == { h \in handles : \A g \in handles : g.chain = h.chain => g.type \subseteq h.type }

NextFluent ==
    \/ pb
    \/ \E h \in Latest : clone(h)
    \/ \E h \in Latest, options \in BareOptions : build(h, options)
    \/ \E h \in Latest : autoRotate(h)
    \/ \E h \in Latest, options \in BackgroundOptions : background(h, options)
    \/ \E h \in Latest, options \in BlurOptions : blur(h, options)
    \/ \E h \in Latest, options \in CacheBusterOptions : cacheBuster(h, options)
    \/ \E h \in Latest, options \in CropOptions : crop(h, options)
    \/ \E h \in Latest, options \in DprOptions : dpr(h, options)
    \/ \E h \in Latest, options \in FileNameOptions : filename(h, options)
    \/ \E h \in Latest, options \in FormatOptions : format(h, options)
    \/ \E h \in Latest, options \in GravityOptions : gravity(h, options)
    \/ \E h \in Latest, options \in MaxBytesOptions : maxBytes(h, options)
    \/ \E h \in Latest, options \in PaddingOptions : pad(h, options)
    \/ \E h \in Latest, options \in PresetOptions : preset(h, options)
    \/ \E h \in Latest, options \in QualityOptions : quality(h, options)
    \/ \E h \in Latest, options \in ResizeOptions : resize(h, options)
    \/ \E h \in Latest, options \in RotationOptions : rotate(h, options)
    \/ \E h \in Latest, options \in SharpenOptions : sharpen(h, options)
    \/ \E h \in Latest : stripColorProfile(h)
    \/ \E h \in Latest : stripMetadata(h)
    \/ \E h \in Latest, options \in TrimOptions : trim(h, options)
    \/ \E h \in Latest, options \in WatermarkOptions : watermark(h, options)

\* Clients that write fluent chains from pb(): every call is made on the value the
\* previous call on that chain returned
SpecFluent == Init /\ [][NextFluent]_vars

NextBuild ==
    \/ Allocated = { } /\ pb
    \/ \E h \in handles, options \in BuildOptions : build(h, options)
    \/ \E h \in handles, options \in QualityOptions : quality(h, options)
    \/ \E h \in handles, options \in ResizeOptions : resize(h, options)

\* Clients that make one chain, resize and set the quality on it, and build it
\* with every combination of options
SpecBuild == Init /\ [][NextBuild]_vars

NextClone ==
    \/ Allocated = { } /\ pb
    \/ \E h \in handles : clone(h)
    \/ \E h \in handles, options \in PathOptions : build(h, options)
    \/ \E h \in handles, options \in QualityOptions : quality(h, options)
    \/ \E h \in handles, options \in ResizeOptions : resize(h, options)

\* Clients that make one chain with pb() and clone it, resize and set the quality
\* on the chains, and build them with and without a path
SpecClone == Init /\ [][NextClone]_vars

-----------------------------------------------------------------------------
(* Properties *)

\* The token sequence of chain c
tokens(c) == modifiers[ref[c]]

\* What build(options) returns on chain c in the current state
Built(c, options) == buildCall(tokens(c), options).ret

RECURSIVE prefixOf(_)
\* The modifier kind of a token: its text before the first ":"
prefixOf(token) ==
    IF Len(token) = 0 \/ Head(token) = ":" THEN << >>
    ELSE << Head(token) >> \o prefixOf(Tail(token))

\* build arguments the frame properties compare the outputs of: none, and a path
\* in plain mode under a baseUrl
SampleOptions ==
    { None,
      Some([path |-> Some(<< "/", "a", ".", "j", "s" >>),
            baseUrl |-> Some(<< "h", "t", "t", "p", ":", "/", "/", "h" >>),
            plain |-> Some(TRUE), signature |-> None]) }

\* C1: a chain created by pb() holds exactly the tokens of the chain-method calls
\* made on it, in call order, whatever build() and clone() calls came between, and
\* build() with no options returns them joined by "/".
C1_TokensAreCallsInOrder ==
    \A c \in Allocated :
        origin[c].how = "pb" =>
            /\ tokens(c) = calls[c]
            /\ (last.op = "build" /\ last.chain = c /\ last.options = None)
                   => last.out = join(calls[c], << "/" >>)

\* C1 witness: a pb() chain that was cloned and took two calls producing different
\* tokens has just been built with no options.
C1_Witness ==
    \E c \in Allocated, d \in Allocated :
        /\ origin[c].how = "pb"
        /\ origin[d] = [how |-> "clone", of |-> c]
        /\ Len(calls[c]) = 2
        /\ calls[c][1] # calls[c][2]
        /\ last.op = "build" /\ last.chain = c /\ last.options = None

\* C2: no chain's token sequence holds two tokens of the same modifier kind.
C2_OneTokenPerKind ==
    \A c \in Allocated :
        \A i \in 1..Len(tokens(c)), j \in 1..Len(tokens(c)) :
            i # j => prefixOf(tokens(c)[i]) # prefixOf(tokens(c)[j])

\* C3: the handle a chain method k returns exposes the receiver's chain methods
\* without k, and only k is removed.
C3_ReturnedTypeDropsTheMethod ==
    last.op \in Methods => Exposed(last.ret) = Exposed(last.recv) \ { last.op }

\* C4: once d is a clone of c, a chain-method call on either leaves the other's
\* token sequence and build outputs as they were.
C4_CloneIndependence ==
    [][\A c \in Chains, d \in Chains :
          origin[d] = [how |-> "clone", of |-> c] =>
              /\ calls'[d] # calls[d] =>
                    /\ tokens(c)' = tokens(c)
                    /\ \A o \in SampleOptions : Built(c, o)' = Built(c, o)
              /\ calls'[c] # calls[c] =>
                    /\ tokens(d)' = tokens(d)
                    /\ \A o \in SampleOptions : Built(d, o)' = Built(d, o)]_vars

\* C4 witness: d was cloned from the empty chain c, then each took one call, and the
\* two hold different tokens.
C4_Witness ==
    \E c \in Allocated, d \in Allocated :
        /\ origin[d] = [how |-> "clone", of |-> c]
        /\ Len(calls[c]) = 1 /\ Len(calls[d]) = 1
        /\ Len(tokens(c)) = 1 /\ Len(tokens(d)) = 1
        /\ tokens(c) # tokens(d)

\* The options of the last build call, destructured
lastOptions == destructure(last.options)

\* An optional string that is present and has a character
nonEmpty(opt) == Len(opt) = 1 /\ Len(opt[1]) > 0

\* The last call was build with a non-empty path
BuiltWithPath == last.op = "build" /\ nonEmpty(lastOptions.path)

\* The file segment the last build call's options ask for, as path components
lastFileSegment ==
    IF isTrue(lastOptions.plain)
    THEN << << "p", "l", "a", "i", "n" >>, lastOptions.path[1] >>
    ELSE << encodeFilePath(lastOptions.path[1]) >>

\* The core path of the last build call: the chain's tokens, then the file segment
lastCorePath == join(tokens(last.chain) \o lastFileSegment, << "/" >>)

\* What the last build call puts before the final path
lastPrefix ==
    IF nonEmpty(lastOptions.baseUrl) THEN lastOptions.baseUrl[1] \o << "/" >> ELSE << "/" >>

\* C5: build leaves every token sequence as it was, whatever its options, and a
\* chain method called right after a build appends its token directly after the
\* tokens the chain held before the build.
C5_BuildLeavesTheChain ==
    [][/\ last'.op = "build" => modifiers' = modifiers
       /\ \A c \in Chains :
            (last.op = "build" /\ calls'[c] # calls[c]) =>
                tokens(c)' = Append(tokens(c), calls'[c][Len(calls'[c])])]_vars

\* C5 witness: a chain of two tokens has just been built with a path in plain
\* mode, a signature and a baseUrl, and still holds its two tokens.
C5_Witness ==
    /\ BuiltWithPath
    /\ isTrue(lastOptions.plain)
    /\ lastOptions.signature # None
    /\ nonEmpty(lastOptions.baseUrl)
    /\ Len(tokens(last.chain)) = 2

\* C6: build with no options, or with options whose path is absent or "", returns
\* the tokens joined by "/" and nothing else: "" for the empty chain, no leading
\* "/", no signature computed, whatever signature and baseUrl are supplied.
C6_NoPathIsTheBareChain ==
    (last.op = "build" /\ (last.options = None \/ lastOptions.path \in { None, Some(<< >>) })) =>
        /\ last.out = join(tokens(last.chain), << "/" >>)
        /\ last.signed = None
        /\ tokens(last.chain) = << >> => last.out = << >>
        /\ tokens(last.chain) # << >> =>
              SubSeq(last.out, 1, Len(tokens(last.chain)[1])) = tokens(last.chain)[1]

\* C6 witness: a chain of two tokens has just been built with the path "", a
\* signature and a non-empty baseUrl.
C6_Witness ==
    /\ last.op = "build"
    /\ lastOptions.path = Some(<< >>)
    /\ lastOptions.signature # None
    /\ nonEmpty(lastOptions.baseUrl)
    /\ Len(tokens(last.chain)) = 2

\* C7: with a non-empty path and a signature, generateSignature is called with the
\* core path (no leading "/", no baseUrl) and the key and salt given, and build
\* returns the prefix, the signature, "/" and the core path; without a signature
\* nothing is signed and build returns the prefix and the core path.
C7_SignatureCoversTheCorePath ==
    BuiltWithPath =>
        IF lastOptions.signature # None
        THEN LET sig == lastOptions.signature[1]
             IN  /\ last.signed # None
                 /\ last.signed[1].message = lastCorePath
                 /\ last.signed[1].key = sig.key
                 /\ last.signed[1].salt = sig.salt
                 /\ Head(last.signed[1].message) # "/"
                 /\ last.out = lastPrefix
                                \o generateSignature(lastCorePath, sig.key, sig.salt)
                                \o << "/" >> \o lastCorePath
        ELSE /\ last.signed = None
             /\ last.out = lastPrefix \o lastCorePath

\* C7 witness: a chain of two tokens has just been built with a path, a signature
\* and a non-empty baseUrl.
C7_Witness ==
    /\ BuiltWithPath
    /\ lastOptions.signature # None
    /\ nonEmpty(lastOptions.baseUrl)
    /\ lastOptions.plain = None
    /\ Len(tokens(last.chain)) = 2

\* The last Len(t) characters of s
suffix(s, n) == SubSeq(s, Len(s) - n + 1, Len(s))

\* C8: with a non-empty path, what build returns ends with the chain's tokens and
\* then one form of the file segment: "plain" and the raw path when plain is true,
\* the encoded path alone otherwise; nothing else follows the prefix and the
\* signature, so the two forms never appear together.
C8_OneFileSegmentForm ==
    BuiltWithPath =>
        LET path == lastOptions.path[1]
            seg == IF isTrue(lastOptions.plain)
                   THEN << "p", "l", "a", "i", "n", "/" >> \o path
                   ELSE encodeFilePath(path)
            body == IF tokens(last.chain) = << >> THEN seg
                    ELSE join(tokens(last.chain), << "/" >>) \o << "/" >> \o seg
            signature == IF lastOptions.signature = None THEN 0
                         ELSE Len(generateSignature(body, lastOptions.signature[1].key,
                                                    lastOptions.signature[1].salt)) + 1
        IN  /\ Len(last.out) = Len(lastPrefix) + signature + Len(body)
            /\ suffix(last.out, Len(body)) = body
            /\ ~isTrue(lastOptions.plain) => encodeFilePath(path) # path

\* C8 witness: a chain of two tokens has just been built with a path and plain
\* explicitly false.
C8_Witness ==
    /\ BuiltWithPath
    /\ lastOptions.plain = Some(FALSE)
    /\ Len(tokens(last.chain)) = 2

\* C8 witness of the other form: the same with plain true.
C8_WitnessPlain ==
    /\ BuiltWithPath
    /\ lastOptions.plain = Some(TRUE)
    /\ Len(tokens(last.chain)) = 2

\* C9: with a non-empty path, build returns baseUrl, one "/" and the final path
\* when baseUrl is non-empty, and "/" and the final path when baseUrl is absent
\* or empty; the final path does not begin with "/".
C9_BaseUrlOrLeadingSlash ==
    BuiltWithPath =>
        LET final == finalPath(lastCorePath, lastOptions.signature).path
            baseUrl == lastOptions.baseUrl
        IN  /\ Head(final) # "/"
            /\ IF baseUrl # None /\ baseUrl[1] # << >>
               THEN /\ SubSeq(last.out, 1, Len(baseUrl[1])) = baseUrl[1]
                    /\ last.out[Len(baseUrl[1]) + 1] = "/"
                    /\ SubSeq(last.out, Len(baseUrl[1]) + 2, Len(last.out)) = final
               ELSE /\ Head(last.out) = "/"
                    /\ Tail(last.out) = final

\* C9 witness: a chain of two tokens has just been built with a path and a
\* non-empty baseUrl.
C9_Witness ==
    /\ BuiltWithPath
    /\ nonEmpty(lastOptions.baseUrl)
    /\ lastOptions.signature = None
    /\ Len(tokens(last.chain)) = 2

\* C10: a chain-method call on one ParamBuilder object leaves the token sequence
\* and the build outputs of every other object as they were.
C10_ChainsShareNothing ==
    [][\A c \in Chains, d \in Chains :
          (c # d /\ c \in Allocated /\ d \in Allocated /\ calls'[c] # calls[c]) =>
              /\ tokens(d)' = tokens(d)
              /\ \A o \in SampleOptions : Built(d, o)' = Built(d, o)]_vars

\* C11: build is determined by the token sequence and the options: after
\* build(options) returned a string on a chain, build(options) on that chain, and on
\* every chain holding the same tokens whatever its history, returns that string.
C11_BuildIsDeterministic ==
    last.op = "build" =>
        \A d \in Allocated :
            tokens(d) = tokens(last.chain) => Built(d, last.options) = last.out

\* C11 witness: a chain and the clone taken of it while it was empty each took one
\* call of their own and hold the same token, and one of them has just been built
\* with a path and a signature.
C11_Witness ==
    \E d \in Allocated :
        /\ BuiltWithPath
        /\ lastOptions.signature # None
        /\ d # last.chain
        /\ Len(calls[d]) = 1 /\ Len(calls[last.chain]) = 1
        /\ Len(tokens(d)) = 1
        /\ tokens(d) = tokens(last.chain)

\* The index of the first "/" of s, Len(s) + 1 when it has none
firstSlash(s) ==
    IF \E i \in 1..Len(s) : s[i] = "/"
    THEN CHOOSE i \in 1..Len(s) : s[i] = "/" /\ \A j \in 1..(i - 1) : s[j] # "/"
    ELSE Len(s) + 1

\* s starts with p
startsWith(s, p) == Len(p) <= Len(s) /\ SubSeq(s, 1, Len(p)) = p

\* What follows the first n characters of s
dropFirst(s, n) == SubSeq(s, n + 1, Len(s))

\* What follows prefix p, the signature component and its "/" in a signed output
afterSignature(out, p) ==
    LET rest == dropFirst(out, Len(p))
    IN  dropFirst(rest, firstSlash(rest))

\* The signature component of a signed output with prefix p
signatureOf(out, p) ==
    LET rest == dropFirst(out, Len(p))
    IN  SubSeq(rest, 1, firstSlash(rest) - 1)

\* The options of the last build call with another signature option
lastOptionsSigned(signature) == Some([lastOptions EXCEPT !.signature = signature])

\* C12: for one chain, path, plain and baseUrl, the signed outputs for every key
\* and salt start with the same prefix and, after the signature component, hold the
\* same core path, and these are the prefix and the core path of the unsigned output.
C12_KeyAndSaltChangeTheSignatureOnly ==
    (BuiltWithPath /\ lastOptions.signature # None) =>
        LET unsigned == Built(last.chain, lastOptionsSigned(None))
            core == dropFirst(unsigned, Len(lastPrefix))
        IN  /\ startsWith(unsigned, lastPrefix)
            /\ startsWith(last.out, lastPrefix)
            /\ afterSignature(last.out, lastPrefix) = core
            /\ \A s \in Signatures \ { None } :
                 LET other == Built(last.chain, lastOptionsSigned(s))
                 IN  /\ startsWith(other, lastPrefix)
                     /\ afterSignature(other, lastPrefix) = core

\* C12 witness: a chain of two tokens has just been built with a path, a baseUrl and
\* a signature, and another key and another salt each give another signature.
C12_Witness ==
    /\ BuiltWithPath
    /\ lastOptions.signature # None
    /\ nonEmpty(lastOptions.baseUrl)
    /\ Len(tokens(last.chain)) = 2
    /\ \E s \in Signatures \ { None }, t \in Signatures \ { None } :
         /\ s[1].key # lastOptions.signature[1].key
         /\ t[1].salt # lastOptions.signature[1].salt
         /\ signatureOf(Built(last.chain, lastOptionsSigned(s)), lastPrefix)
              # signatureOf(last.out, lastPrefix)
         /\ signatureOf(Built(last.chain, lastOptionsSigned(t)), lastPrefix)
              # signatureOf(last.out, lastPrefix)

\* The token the documentation gives for each angle
rotTokens ==
    [angle \in { 90, 180, 270 } |->
        CASE angle = 90 -> << "r", "o", "t", ":", "9", "0" >>
          [] angle = 180 -> << "r", "o", "t", ":", "1", "8", "0" >>
          [] angle = 270 -> << "r", "o", "t", ":", "2", "7", "0" >>]

\* C13: rotate renders the angles 90, 180 and 270 as "rot:90", "rot:180" and
\* "rot:270", and a rotate call appends one of these as one token after the tokens
\* the chain holds, which stay as they were.
C13_RotateAppendsItsToken ==
    [][/\ RotationOptions = { 90, 180, 270 }
       /\ \A angle \in RotationOptions : rotateToken(angle) = rotTokens[angle]
       /\ last'.op = "rotate" =>
            \E angle \in RotationOptions, c \in Chains :
                /\ c = last'.chain
                /\ tokens(c)' = Append(tokens(c), rotTokens[angle])]_vars

\* C13 witness: rotate has just been called on a chain that held another token,
\* and the chain now holds that token and then "rot:270".
C13_Witness ==
    /\ last.op = "rotate"
    /\ Len(tokens(last.chain)) = 2
    /\ tokens(last.chain)[1] \notin { rotTokens[a] : a \in { 90, 180, 270 } }
    /\ tokens(last.chain)[2] = rotTokens[270]

\* C14: right after d = c.clone(), d holds the tokens of c, the same ones in the
\* same order, in an array of its own, so build returns for d what it returns for
\* c under every combination of options.
C14_CloneHoldsTheSameTokens ==
    last.op = "clone" =>
        LET d == last.chain
            c == origin[d].of
        IN  /\ Len(tokens(d)) = Len(tokens(c))
            /\ \A i \in 1..Len(tokens(c)) : tokens(d)[i] = tokens(c)[i]
            /\ \A options \in BuildOptions : Built(d, options) = Built(c, options)

\* C14 witness: a chain that took two calls and holds two different tokens has
\* just been cloned.
C14_Witness ==
    /\ last.op = "clone"
    /\ origin[last.chain].how = "clone"
    /\ ref[last.chain] # ref[origin[last.chain].of]
    /\ Len(calls[origin[last.chain].of]) = 2
    /\ Len(tokens(last.chain)) = 2
    /\ tokens(last.chain)[1] # tokens(last.chain)[2]

\* A clone of the empty chain has just been taken
C14_WitnessEmpty ==
    /\ last.op = "clone"
    /\ tokens(origin[last.chain].of) = << >>

\* C15: a chain method makes no chain: the handle it returns is on the receiver's
\* chain, the token it appended is in what build returns through every handle on
\* that chain, the one used and the one returned alike. build returns no handle.
\* Of the calls made on a chain, clone alone makes a chain, and the array of that
\* chain is a new one, apart from the array of every chain there was.
C15_ChainMethodsReturnTheReceiver ==
    [][/\ last'.op \in Methods =>
            \E c \in Allocated :
                /\ calls'[c] # calls[c]
                /\ ref' = ref /\ origin' = origin
                /\ \A g \in handles' \ handles : g.chain = c
                /\ \E g \in handles' : g.chain = c /\ g.type = last'.ret
                /\ LET token == calls'[c][Len(calls'[c])]
                   IN  \A g \in handles' :
                         g.chain = c =>
                            /\ tokens(g.chain)' = Append(tokens(c), token)
                            /\ Built(g.chain, None)'
                                 = join(Append(tokens(c), token), << "/" >>)
       /\ last'.op = "build" => (handles' = handles /\ ref' = ref /\ origin' = origin)
       /\ \A d \in Chains :
            (origin'[d] # origin[d] /\ origin'[d].of # 0) =>
                /\ last'.op = "clone"
                /\ \A c \in Allocated : ref'[d] # ref[c]]_vars

\* C15 witness: a pb() chain took a call through its first handle, and then a
\* second call through that same handle while the handle the first call returned
\* was held; the chain holds both tokens.
C15_Witness ==
    \E g \in handles :
        /\ last.op \in Methods
        /\ g.chain = last.chain
        /\ origin[last.chain].how = "pb"
        /\ last.recv = { }
        /\ Cardinality(g.type) = 1
        /\ g.type # last.ret
        /\ Len(calls[last.chain]) = 2
        /\ tokens(last.chain) = calls[last.chain]

\* C16: built with a non-empty path and no baseUrl, the empty chain gives "/" and
\* the file segment (the encoded path, or "plain/" and the raw path when plain is
\* true), and with a signature "/", the signature of the file segment, "/" and
\* the file segment: no empty component stands for the missing tokens.
C16_EmptyChainLeavesNoEmptyComponent ==
    (BuiltWithPath /\ tokens(last.chain) = << >> /\ ~nonEmpty(lastOptions.baseUrl)) =>
        LET path == lastOptions.path[1]
            segment == IF lastOptions.plain = Some(TRUE)
                       THEN << "p", "l", "a", "i", "n", "/" >> \o path
                       ELSE encodeFilePath(path)
            signature == lastOptions.signature
        IN  /\ Head(segment) # "/"
            /\ last.out[2] # "/"
            /\ IF signature = None
               THEN last.out = << "/" >> \o segment
               ELSE last.out = << "/" >>
                                 \o generateSignature(segment, signature[1].key,
                                                      signature[1].salt)
                                 \o << "/" >> \o segment

\* C16 witness: the empty chain has just been built with a path and a signature
\* and without baseUrl.
C16_Witness ==
    /\ BuiltWithPath
    /\ tokens(last.chain) = << >>
    /\ calls[last.chain] = << >>
    /\ lastOptions.baseUrl = None
    /\ lastOptions.signature # None

\* The same without a signature and with plain true
C16_WitnessPlain ==
    /\ BuiltWithPath
    /\ tokens(last.chain) = << >>
    /\ lastOptions.baseUrl = None
    /\ lastOptions.signature = None
    /\ lastOptions.plain = Some(TRUE)

\* C17: the handle clone returns has the type of the handle it was called on: the
\* two expose the same chain methods, and a method removed from the one is not
\* exposed by the other.
C17_CloneKeepsTheType ==
    last.op = "clone" =>
        LET returned == Handle(last.chain, last.ret)
            receiver == Handle(origin[last.chain].of, last.recv)
        IN  /\ returned \in handles
            /\ receiver \in handles
            /\ Exposed(returned.type) = Exposed(receiver.type)
            /\ \A method \in Methods :
                 Exposes(returned, method) <=> Exposes(receiver, method)

\* C17 witness: a handle that two chain-method calls narrowed has just been cloned.
C17_Witness ==
    /\ last.op = "clone"
    /\ Cardinality(last.recv) = 2
    /\ Len(calls[origin[last.chain].of]) = 2
    /\ Cardinality(Exposed(last.ret)) = Cardinality(Methods) - 2

====
